---- MODULE Spec2Model ----
(***************************************************************************)
(* Model of calcalt.c: the recursive update procedure for fractal          *)
(* landscapes (make_fold, next_strip, free_strip, free_fold and the        *)
(* update kernels).                                                        *)
(*                                                                         *)
(* Pointers.  A Strip pointer is the number of the allocation that made    *)
(* it (1, 2, ... in order of make_strip calls); NULL is 0.  The heap maps  *)
(* each allocation to the Strip stored there and to the list of releases   *)
(* applied to it.  A Fold pointer is level+1 of the Fold it points to, so  *)
(* that NULL is 0 for Folds as well.                                       *)
(*                                                                         *)
(* Heights.  A Height or Length is an exact rational <<num, den>> with     *)
(* den > 0 in lowest terms.  <<0, 0>> is the content of storage that       *)
(* make_strip allocated and nothing wrote yet; arithmetic on it yields it. *)
(*                                                                         *)
(* gaussian().  The random source is outside the file.  Each external      *)
(* call of next_strip chooses a noise sequence; the k-th draw made during  *)
(* the call returns entry k of it (cyclically).                            *)
(*                                                                         *)
(* Bookkeeping.  reads and writes hold the entries <<strip, index>> the    *)
(* latest call read and wrote; log holds, per Fold and per call of         *)
(* next_strip on it, the strips the call obtained, allocated and released; *)
(* ph marks the entries that hold the 0 double_strip put at odd indices.   *)
(***************************************************************************)
EXTENDS Integers, Sequences, FiniteSets, TLC

\* ---------------------------------------------------------------- bounds
MaxLevels == 2
MaxCalls == 8

LevelValues == 0..MaxLevels
SmoothValues == {FALSE, TRUE}
LengthValues == {1}
StartValues == {0, 1}
MeanValues == {0, 1}
FdimValues == {0, 1}
NoiseSeqs == {<<0>>, <<1, -1>>}
ScaleValues == {1, 2}
PatternValues == {0, 1}

\* ------------------------------------------------------------- constants
NULL == 0
START == 0
STORE == 1

\* ---------------------------------------------------- Height arithmetic
Uninit == <<0, 0>>

Abs(x) == IF x < 0 THEN -x ELSE x

RECURSIVE GCD(_, _)
GCD(a, b) == IF b = 0 THEN a ELSE GCD(b, a % b)

Norm(n, d) ==
  IF d = 0 THEN Uninit
  ELSE LET g == GCD(Abs(n), Abs(d))
           s == IF d < 0 THEN -1 ELSE 1
       IN <<(s * n) \div g, (s * d) \div g>>

H(n) == <<n, 1>>

HAdd(x, y) ==
  IF x[2] = 0 \/ y[2] = 0 THEN Uninit
  ELSE Norm(x[1] * y[2] + y[1] * x[2], x[2] * y[2])

HMul(x, y) ==
  IF x[2] = 0 \/ y[2] = 0 THEN Uninit
  ELSE Norm(x[1] * y[1], x[2] * y[2])

HDiv(x, k) == IF x[2] = 0 THEN Uninit ELSE Norm(x[1], x[2] * k)

RECURSIVE IPow(_, _)
IPow(x, e) == IF e = 0 THEN 1 ELSE x * IPow(x, e - 1)

Shl(level) == IPow(2, level)

Range(s) == {s[i] : i \in DOMAIN s}

\* ------------------------------------------------------------------ state
VARIABLES
  args,         \* the arguments make_fold was called with
  top,          \* the Fold make_fold returned (the finest one)
  fold,         \* Fold pointer -> Fold struct
  heap,         \* Strip pointer -> [level, d, rel]
  returned,     \* Fold pointer -> the strips next_strip returned from it, in order
  nextCalls,    \* Fold pointer -> per call of next_strip on it, the calls it made on fold->next
  lateWrites,   \* strips written to after next_strip had returned them
  noiseUsed,    \* the noise sequences the calls so far drew from
  callerFreed,  \* how many of the strips it received the caller has released
  foldFreed,    \* the Folds free_fold has released
  exitCode,     \* 0, or the status the process exited with
  heapCorrupt,  \* free_strip was applied to storage already released
  log,          \* Fold pointer -> per call of next_strip on it, what the call did
  reads,        \* the entries <<strip, index>> the latest call read
  writes,       \* the entries <<strip, index>> the latest call wrote
  op            \* the latest call made from outside the file, with its arguments

vars == <<args, top, fold, heap, returned, nextCalls, lateWrites, noiseUsed,
          callerFreed, foldFreed, exitCode, heapCorrupt, log, reads, writes, op>>

\* The machine: the part of the state the C functions read and write,
\* threaded through them, plus ret (the value the last call returned),
\* g (draws of gaussian() made so far in this external call) and noise.
Machine(noise) ==
  [fold |-> fold, heap |-> heap, returned |-> returned, nextCalls |-> nextCalls,
   lateWrites |-> lateWrites, foldFreed |-> foldFreed, exitCode |-> exitCode,
   heapCorrupt |-> heapCorrupt, log |-> log, reads |-> {}, writes |-> {},
   ret |-> NULL, g |-> 0, noise |-> noise]

EmptyMachine ==
  [fold |-> <<>>, heap |-> <<>>, returned |-> <<>>, nextCalls |-> <<>>,
   lateWrites |-> {}, foldFreed |-> {}, exitCode |-> 0,
   heapCorrupt |-> FALSE, log |-> <<>>, reads |-> {}, writes |-> {},
   ret |-> NULL, g |-> 0, noise |-> <<0>>]

\* --------------------------------------------------------- memory access
Load(m, p, i) ==
  IF i \in DOMAIN m.heap[p].d THEN m.heap[p].d[i] ELSE Uninit

AllReturned(m) == UNION {Range(m.returned[f]) : f \in DOMAIN m.returned}

Store(m, p, i, v) ==
  [m EXCEPT !.heap[p].d = IF i \in DOMAIN @ THEN [@ EXCEPT ![i] = v] ELSE @,
            !.heap[p].ph = @ \ {i},
            !.writes = @ \cup {<<p, i>>},
            !.lateWrites = IF p \in AllReturned(m) THEN @ \cup {p} ELSE @]

\* the entries d[i], i in idx, of strip p are read
Reads(m, p, idx) == [m EXCEPT !.reads = @ \cup {<<p, i>> : i \in idx}]

\* *b = 0 of double_strip: d[i] holds a placeholder until it is written again
Placeholder(m, p, i) ==
  [Store(m, p, i, H(0)) EXCEPT !.heap[p].ph = @ \cup {i}]

gaussian(m) == H(m.noise[(m.g % Len(m.noise)) + 1])

Drawn(m) == [m EXCEPT !.g = @ + 1]

\* -------------------------------------------------------- Strip utilities
\* mutant of make_strip: points = (1 << level), the + 1 forgotten
make_strip_short(m, level) ==
  LET points == Shl(level)
      p == Len(m.heap) + 1
  IN [m EXCEPT !.heap = Append(@, [level |-> level,
                                   d |-> [i \in 0..(points - 1) |-> Uninit],
                                   ph |-> {}, rel |-> <<>>]),
               !.ret = p]

\* points = (1 << level) + 1 entries, d[0] .. d[points-1], contents not set
make_strip(m, level) ==
  LET points == Shl(level) + 1
      p == Len(m.heap) + 1
  IN [m EXCEPT !.heap = Append(@, [level |-> level,
                                   d |-> [i \in 0..(points - 1) |-> Uninit],
                                   ph |-> {}, rel |-> <<>>]),
               !.ret = p]

\* who: the party that makes the call ("next_strip", "free_fold", "caller")
free_strip(m, p, who) ==
  [m EXCEPT !.heap[p].rel = Append(@, who),
            !.heapCorrupt = @ \/ (m.heap[p].rel # <<>>)]

\* mutant of double_strip_loop: *b = 0 forgotten, the odd entries stay unset
RECURSIVE double_strip_loop_nozero(_, _, _, _)
double_strip_loop_nozero(m, s, p, i) ==
  IF i < Shl(m.heap[s].level)
  THEN double_strip_loop_nozero(Store(Reads(m, s, {i}), p, 2 * i, Load(m, s, i)),
                                s, p, i + 1)
  ELSE Store(Reads(m, s, {i}), p, 2 * i, Load(m, s, i))

RECURSIVE double_strip_loop(_, _, _, _)
double_strip_loop(m, s, p, i) ==
  IF i < Shl(m.heap[s].level)
  THEN double_strip_loop(Placeholder(Store(Reads(m, s, {i}), p, 2 * i, Load(m, s, i)),
                                     p, 2 * i + 1),
                         s, p, i + 1)
  ELSE Store(Reads(m, s, {i}), p, 2 * i, Load(m, s, i))

double_strip(m, s) ==
  LET m1 == make_strip(m, m.heap[s].level + 1)
  IN [double_strip_loop(m1, s, m1.ret, 0) EXCEPT !.ret = m1.ret]

RECURSIVE set_strip_loop(_, _, _, _, _)
set_strip_loop(m, s, level, value, i) ==
  IF i < Shl(level) + 1
  THEN set_strip_loop(Store(m, s, i, value), s, level, value, i + 1)
  ELSE m

set_strip(m, level, value) ==
  LET m1 == make_strip(m, level)
  IN [set_strip_loop(m1, m1.ret, level, value, 0) EXCEPT !.ret = m1.ret]

\* --------------------------------------------------------- update kernels
\* mutant of side_update_loop: *p = ..., the even entry written for the odd one
RECURSIVE side_update_loop_even(_, _, _, _, _)
side_update_loop_even(m, strip, scale, count, i) ==
  IF i < count
  THEN LET p == 2 * i
           v == HAdd(HMul(scale, gaussian(m)),
                     HDiv(HAdd(Load(m, strip, p), Load(m, strip, p + 2)), 2))
       IN side_update_loop_even(Drawn(Store(Reads(m, strip, {p, p + 2}), strip, p, v)),
                                strip, scale, count, i + 1)
  ELSE m

RECURSIVE side_update_loop(_, _, _, _, _)
side_update_loop(m, strip, scale, count, i) ==
  IF i < count
  THEN LET p == 2 * i
           v == HAdd(HMul(scale, gaussian(m)),
                     HDiv(HAdd(Load(m, strip, p), Load(m, strip, p + 2)), 2))
       IN side_update_loop(Drawn(Store(Reads(m, strip, {p, p + 2}), strip, p + 1, v)),
                           strip, scale, count, i + 1)
  ELSE m

\* mutant of side_update: count = 1 << level
side_update_full(m, strip, scale) ==
  side_update_loop(m, strip, scale, Shl(m.heap[strip].level), 0)

side_update(m, strip, scale) ==
  side_update_loop(m, strip, scale, Shl(m.heap[strip].level - 1), 0)

RECURSIVE mid_update_loop(_, _, _, _, _, _, _, _)
mid_update_loop(m, left, new, right, scale, midscale, count, i) ==
  IF i < count
  THEN LET v1 == HAdd(HMul(scale, gaussian(m)),
                      HDiv(HAdd(Load(m, left, i), Load(m, right, 2 * i)), 2))
           m1 == Drawn(Store(Reads(Reads(m, left, {i}), right, {2 * i}), new, 2 * i, v1))
           v2 == HAdd(HMul(midscale, gaussian(m1)),
                      HDiv(HAdd(HAdd(Load(m1, left, i), Load(m1, left, i + 1)),
                                HAdd(Load(m1, right, 2 * i), Load(m1, right, 2 * i + 2))), 4))
           m2 == Drawn(Store(Reads(Reads(m1, left, {i, i + 1}), right, {2 * i, 2 * i + 2}),
                             new, 2 * i + 1, v2))
       IN mid_update_loop(m2, left, new, right, scale, midscale, count, i + 1)
  ELSE \* the last one
       Drawn(Store(Reads(Reads(m, left, {i}), right, {2 * i}), new, 2 * i,
                   HAdd(HMul(scale, gaussian(m)),
                        HDiv(HAdd(Load(m, left, i), Load(m, right, 2 * i)), 2))))

\* mutant of mid_update: && for || in the test of the levels
mid_update_and(m, left, new, right, scale, midscale) ==
  IF (m.heap[left].level # m.heap[new].level - 1)
       /\ (m.heap[new].level # m.heap[right].level)
  THEN [m EXCEPT !.exitCode = 2]
  ELSE mid_update_loop(m, left, new, right, scale, midscale, Shl(m.heap[left].level), 0)

mid_update(m, left, new, right, scale, midscale) ==
  IF (m.heap[left].level # m.heap[new].level - 1)
       \/ (m.heap[new].level # m.heap[right].level)
  THEN [m EXCEPT !.exitCode = 2]
  ELSE mid_update_loop(m, left, new, right, scale, midscale, Shl(m.heap[left].level), 0)

\* i counts the interior iterations; g, l and r all stand at index 2 * (i + 1)
RECURSIVE recalc_loop(_, _, _, _, _, _, _)
recalc_loop(m, left, regen, right, scale, count, i) ==
  LET k == 2 * (i + 1)
  IN IF i < count
     THEN LET v == HAdd(HMul(scale, gaussian(m)),
                        HDiv(HAdd(HAdd(Load(m, left, k), Load(m, regen, k + 1)),
                                  HAdd(Load(m, regen, k - 1), Load(m, right, k))), 4))
              m1 == Reads(Reads(Reads(m, left, {k}), regen, {k + 1, k - 1}), right, {k})
          IN recalc_loop(Drawn(Store(m1, regen, k, v)), left, regen, right, scale, count, i + 1)
     ELSE \* the last one
          Drawn(Store(Reads(Reads(Reads(m, left, {k}), regen, {k - 1}), right, {k}),
                      regen, k,
                      HAdd(HMul(scale, gaussian(m)),
                           HDiv(HAdd(HAdd(Load(m, left, k), Load(m, regen, k - 1)),
                                     Load(m, right, k)), 3))))

recalc(m, left, regen, right, scale) ==
  IF (m.heap[left].level # m.heap[regen].level)
       \/ (m.heap[regen].level # m.heap[right].level)
  THEN [m EXCEPT !.exitCode = 2]
  ELSE LET count == Shl(m.heap[regen].level - 1) - 1
           v0 == HAdd(HMul(scale, gaussian(m)),
                      HDiv(HAdd(HAdd(Load(m, left, 0), Load(m, regen, 1)),
                                Load(m, right, 0)), 3))
           m1 == Reads(Reads(Reads(m, left, {0}), regen, {1}), right, {0})
       IN recalc_loop(Drawn(Store(m1, regen, 0, v0)), left, regen, right, scale, count, 0)

\* ------------------------------------------------------ generation engine
\* what a call of next_strip on a Fold did: the strip it obtained from
\* fold->next, the strip it allocated as working with its contents at the
\* end of mid_update, and the strip it released (NULL where it did not)
NoEntry == [new |-> NULL, working |-> NULL, snap |-> <<>>, released |-> NULL]

\* the entries d[0], d[1], ... of a strip, as a sequence
Snapshot(d) == [i \in 1..Cardinality(DOMAIN d) |-> d[i - 1]]

\* the entry of the call of next_strip(f) in progress
Logged(m, f, field, value) ==
  [m EXCEPT !.log[f][Len(m.log[f])][field] = value]

\* return(result) from next_strip(fold): the strip passes to whoever called
Return(m, f, result) ==
  [m EXCEPT !.ret = result, !.returned[f] = Append(@, result)]

RECURSIVE next_strip(_, _)

\* mutant of next_strip_base: the strip is also kept in fold->old
next_strip_base_cached(m, f) ==
  LET fd == m.fold[f]
      m1 == make_strip(m, 0)
      result == m1.ret
      m2 == Drawn(Store(m1, result, 0, HAdd(fd.mean, HMul(fd.scale, gaussian(m1)))))
      m3 == Drawn(Store(m2, result, 1, HAdd(fd.mean, HMul(fd.scale, gaussian(m2)))))
  IN Return([m3 EXCEPT !.fold[f].old = result], f, result)

\* level 0: generate values from scratch
next_strip_base(m, f) ==
  LET fd == m.fold[f]
      m1 == make_strip(m, 0)
      result == m1.ret
      m2 == Drawn(Store(m1, result, 0, HAdd(fd.mean, HMul(fd.scale, gaussian(m1)))))
      m3 == Drawn(Store(m2, result, 1, HAdd(fd.mean, HMul(fd.scale, gaussian(m2)))))
  IN Return(m3, f, result)

\* mutant of next_strip_update: recalc(working, old, regen), the last two
\* arguments swapped, so that the smoothing pass rewrites old
next_strip_update_swapped(m, f) ==
  LET fd == m.fold[f]
      fetched(a) == Logged([a EXCEPT !.fold[f].new = a.ret], f, "new", a.ret)
      sided(a) == side_update(a, a.fold[f].regen, fd.scale)
      allocated(a) == make_strip(a, fd.level)
      stored(a) == Logged([a EXCEPT !.fold[f].working = a.ret], f, "working", a.ret)
      filled(a) == mid_update(a, a.fold[f].new, a.fold[f].working, a.fold[f].regen,
                              fd.scale, fd.midscale)
      noted(a) == Logged(a, f, "snap", Snapshot(a.heap[a.fold[f].working].d))
      smoothed(a) == IF a.exitCode # 0 \/ ~fd.smooth THEN a
                     ELSE recalc(a, a.fold[f].working, a.fold[f].old, a.fold[f].regen, fd.scale)
      updated(a) == IF a.exitCode # 0 THEN a
                    ELSE smoothed(noted(filled(stored(allocated(sided(fetched(a)))))))
  IN updated(next_strip([m EXCEPT !.nextCalls[f][Len(m.nextCalls[f])] = @ + 1], fd.next))

\* mutant of next_strip_update: side_update(fold->regen) forgotten
next_strip_update_noside(m, f) ==
  LET fd == m.fold[f]
      fetched(a) == Logged([a EXCEPT !.fold[f].new = a.ret], f, "new", a.ret)
      sided(a) == a
      allocated(a) == make_strip(a, fd.level)
      stored(a) == Logged([a EXCEPT !.fold[f].working = a.ret], f, "working", a.ret)
      filled(a) == mid_update(a, a.fold[f].new, a.fold[f].working, a.fold[f].regen,
                              fd.scale, fd.midscale)
      noted(a) == Logged(a, f, "snap", Snapshot(a.heap[a.fold[f].working].d))
      smoothed(a) == IF a.exitCode # 0 \/ ~fd.smooth THEN a
                     ELSE recalc(a, a.fold[f].working, a.fold[f].regen, a.fold[f].old, fd.scale)
      updated(a) == IF a.exitCode # 0 THEN a
                    ELSE smoothed(noted(filled(stored(allocated(sided(fetched(a)))))))
  IN updated(next_strip([m EXCEPT !.nextCalls[f][Len(m.nextCalls[f])] = @ + 1], fd.next))

\* mutant of next_strip_update: recalc runs whatever fold->smooth is
next_strip_update_alwayssmooth(m, f) ==
  LET fd == m.fold[f]
      fetched(a) == Logged([a EXCEPT !.fold[f].new = a.ret], f, "new", a.ret)
      sided(a) == side_update(a, a.fold[f].regen, fd.scale)
      allocated(a) == make_strip(a, fd.level)
      stored(a) == Logged([a EXCEPT !.fold[f].working = a.ret], f, "working", a.ret)
      filled(a) == mid_update(a, a.fold[f].new, a.fold[f].working, a.fold[f].regen,
                              fd.scale, fd.midscale)
      noted(a) == Logged(a, f, "snap", Snapshot(a.heap[a.fold[f].working].d))
      smoothed(a) == IF a.exitCode # 0 THEN a
                     ELSE recalc(a, a.fold[f].working, a.fold[f].regen, a.fold[f].old, fd.scale)
      updated(a) == IF a.exitCode # 0 THEN a
                    ELSE smoothed(noted(filled(stored(allocated(sided(fetched(a)))))))
  IN updated(next_strip([m EXCEPT !.nextCalls[f][Len(m.nextCalls[f])] = @ + 1], fd.next))

\* mutant of next_strip_update: working = make_strip(fold->level - 1)
next_strip_update_workinglevel(m, f) ==
  LET fd == m.fold[f]
      fetched(a) == Logged([a EXCEPT !.fold[f].new = a.ret], f, "new", a.ret)
      sided(a) == side_update(a, a.fold[f].regen, fd.scale)
      allocated(a) == make_strip(a, fd.level - 1)
      stored(a) == Logged([a EXCEPT !.fold[f].working = a.ret], f, "working", a.ret)
      filled(a) == mid_update(a, a.fold[f].new, a.fold[f].working, a.fold[f].regen,
                              fd.scale, fd.midscale)
      noted(a) == Logged(a, f, "snap", Snapshot(a.heap[a.fold[f].working].d))
      smoothed(a) == IF a.exitCode # 0 \/ ~fd.smooth THEN a
                     ELSE recalc(a, a.fold[f].working, a.fold[f].regen, a.fold[f].old, fd.scale)
      updated(a) == IF a.exitCode # 0 THEN a
                    ELSE smoothed(noted(filled(stored(allocated(sided(fetched(a)))))))
  IN updated(next_strip([m EXCEPT !.nextCalls[f][Len(m.nextCalls[f])] = @ + 1], fd.next))

\* case START, the update: fold->new = next_strip(fold->next) up to recalc;
\* each step takes the machine the step before it left
next_strip_update(m, f) ==
  LET fd == m.fold[f]
      fetched(a) == Logged([a EXCEPT !.fold[f].new = a.ret], f, "new", a.ret)
      sided(a) == side_update(a, a.fold[f].regen, fd.scale)
      allocated(a) == make_strip(a, fd.level)
      stored(a) == Logged([a EXCEPT !.fold[f].working = a.ret], f, "working", a.ret)
      filled(a) == mid_update(a, a.fold[f].new, a.fold[f].working, a.fold[f].regen,
                              fd.scale, fd.midscale)
      noted(a) == Logged(a, f, "snap", Snapshot(a.heap[a.fold[f].working].d))
      smoothed(a) == IF a.exitCode # 0 \/ ~fd.smooth THEN a
                     ELSE recalc(a, a.fold[f].working, a.fold[f].regen, a.fold[f].old, fd.scale)
      updated(a) == IF a.exitCode # 0 THEN a
                    ELSE smoothed(noted(filled(stored(allocated(sided(fetched(a)))))))
  IN updated(next_strip([m EXCEPT !.nextCalls[f][Len(m.nextCalls[f])] = @ + 1], fd.next))

\* mutant of next_strip_START: fold->state = STORE forgotten
next_strip_START_nostate(m, f) ==
  LET returning(a) == IF a.exitCode # 0 THEN a
                      ELSE Return(a, f, a.fold[f].old)
  IN returning(next_strip_update(m, f))

\* case START: perform an update, return first result
next_strip_START(m, f) ==
  LET returning(a) == IF a.exitCode # 0 THEN a
                      ELSE Return([a EXCEPT !.fold[f].state = STORE], f, a.fold[f].old)
  IN returning(next_strip_update(m, f))

\* mutant of next_strip_STORE: fold->old = fold->working forgotten
next_strip_STORE_keepold(m, f) ==
  LET result == m.fold[f].regen
      m2 == [m EXCEPT !.fold[f].working = NULL]
      m3 == double_strip(m2, m2.fold[f].new)
      m4 == [m3 EXCEPT !.fold[f].regen = m3.ret]
      m5 == Logged(free_strip(m4, m4.fold[f].new, "next_strip"), f, "released",
                   m4.fold[f].new)
      m6 == [m5 EXCEPT !.fold[f].new = NULL]
  IN Return([m6 EXCEPT !.fold[f].state = START], f, result)

\* mutant of next_strip_STORE: the doubled strip is not stored in fold->regen
next_strip_STORE_keepregen(m, f) ==
  LET result == m.fold[f].regen
      m1 == [m EXCEPT !.fold[f].old = m.fold[f].working]
      m2 == [m1 EXCEPT !.fold[f].working = NULL]
      m3 == double_strip(m2, m2.fold[f].new)
      m5 == Logged(free_strip(m3, m3.fold[f].new, "next_strip"), f, "released",
                   m3.fold[f].new)
      m6 == [m5 EXCEPT !.fold[f].new = NULL]
  IN Return([m6 EXCEPT !.fold[f].state = START], f, result)

\* mutant of next_strip_STORE: free_strip(fold->new) forgotten
next_strip_STORE_leak(m, f) ==
  LET result == m.fold[f].regen
      m1 == [m EXCEPT !.fold[f].old = m.fold[f].working]
      m2 == [m1 EXCEPT !.fold[f].working = NULL]
      m3 == double_strip(m2, m2.fold[f].new)
      m4 == [m3 EXCEPT !.fold[f].regen = m3.ret]
      m6 == [m4 EXCEPT !.fold[f].new = NULL]
  IN Return([m6 EXCEPT !.fold[f].state = START], f, result)

\* mutant of next_strip_STORE: fold->new = NULL forgotten
next_strip_STORE_keepnew(m, f) ==
  LET result == m.fold[f].regen
      m1 == [m EXCEPT !.fold[f].old = m.fold[f].working]
      m2 == [m1 EXCEPT !.fold[f].working = NULL]
      m3 == double_strip(m2, m2.fold[f].new)
      m4 == [m3 EXCEPT !.fold[f].regen = m3.ret]
      m5 == Logged(free_strip(m4, m4.fold[f].new, "next_strip"), f, "released",
                   m4.fold[f].new)
  IN Return([m5 EXCEPT !.fold[f].state = START], f, result)

\* case STORE: return second value from previous update
next_strip_STORE(m, f) ==
  LET result == m.fold[f].regen
      m1 == [m EXCEPT !.fold[f].old = m.fold[f].working]
      m2 == [m1 EXCEPT !.fold[f].working = NULL]
      m3 == double_strip(m2, m2.fold[f].new)
      m4 == [m3 EXCEPT !.fold[f].regen = m3.ret]
      m5 == Logged(free_strip(m4, m4.fold[f].new, "next_strip"), f, "released",
                   m4.fold[f].new)
      m6 == [m5 EXCEPT !.fold[f].new = NULL]
  IN Return([m6 EXCEPT !.fold[f].state = START], f, result)

next_strip(m, f) ==
  LET m0 == [m EXCEPT !.nextCalls[f] = Append(@, 0), !.log[f] = Append(@, NoEntry)]
  IN IF m0.fold[f].level = 0 THEN next_strip_base(m0, f)
     ELSE IF m0.fold[f].state = START THEN next_strip_START(m0, f)
     ELSE IF m0.fold[f].state = STORE THEN next_strip_STORE(m0, f)
     ELSE [m0 EXCEPT !.exitCode = 3]

\* ---------------------------------------------------------- Fold lifecycle
\* The Fold of level `levels` is stored at pointer levels + 1.
\* fdim is a whole number here, so that pow() stays rational:
\* (length * sqrt(2)) ^ (2 * fdim) = (2 * length * length) ^ fdim.
RECURSIVE make_fold(_, _, _, _, _, _, _)
make_fold(m, levels, smooth, length, start, mean, fdim) ==
  LET p == levels + 1
      scale == H(IPow(length, 2 * fdim))
      midscale == H(IPow(2 * length * length, fdim))
      m1 == IF levels # 0 THEN set_strip(m, levels, H(start)) ELSE m
      regen == IF levels # 0 THEN m1.ret ELSE NULL
      m2 == IF levels # 0 THEN set_strip(m1, levels, H(start)) ELSE m1
      old == IF levels # 0 THEN m2.ret ELSE NULL
      m3 == IF levels # 0
            THEN make_fold(m2, levels - 1, smooth, 2 * length, start, mean, fdim)
            ELSE m2
      next == IF levels # 0 THEN m3.ret ELSE NULL
      struct == [level |-> levels, state |-> 0, smooth |-> smooth, mean |-> H(mean),
                 scale |-> scale, midscale |-> midscale, new |-> NULL,
                 working |-> NULL, regen |-> regen, old |-> old, next |-> next]
  IN [m3 EXCEPT !.fold = (p :> struct) @@ @,
                !.returned = (p :> <<>>) @@ @,
                !.nextCalls = (p :> <<>>) @@ @,
                !.log = (p :> <<>>) @@ @,
                !.ret = p]

RECURSIVE free_fold(_, _)
free_fold(m, f) ==
  LET fd == m.fold[f]
      m1 == IF fd.new # NULL THEN free_strip(m, fd.new, "free_fold") ELSE m
      m2 == IF fd.working # NULL THEN free_strip(m1, fd.working, "free_fold") ELSE m1
      m3 == IF fd.regen # NULL THEN free_strip(m2, fd.regen, "free_fold") ELSE m2
      m4 == IF fd.old # NULL THEN free_strip(m3, fd.old, "free_fold") ELSE m3
      m5 == IF fd.next # NULL THEN free_fold(m4, fd.next) ELSE m4
  IN [m5 EXCEPT !.foldFreed = @ \cup {f}]

\* ------------------------------------------------------------ the program
Args ==
  [levels : LevelValues, smooth : SmoothValues, length : LengthValues,
   start : StartValues, mean : MeanValues, fdim : FdimValues]

Made(a) ==
  make_fold(EmptyMachine, a.levels, a.smooth, a.length, a.start, a.mean, a.fdim)

Running == exitCode = 0 /\ ~heapCorrupt

\* the machine's state becomes the program's state
Becomes(m) ==
  /\ fold' = m.fold
  /\ heap' = m.heap
  /\ returned' = m.returned
  /\ nextCalls' = m.nextCalls
  /\ lateWrites' = m.lateWrites
  /\ foldFreed' = m.foldFreed
  /\ exitCode' = m.exitCode
  /\ heapCorrupt' = m.heapCorrupt
  /\ log' = m.log
  /\ reads' = m.reads
  /\ writes' = m.writes

Init ==
  /\ args \in Args
  /\ top = Made(args).ret
  /\ fold = Made(args).fold
  /\ heap = Made(args).heap
  /\ returned = Made(args).returned
  /\ nextCalls = Made(args).nextCalls
  /\ lateWrites = {}
  /\ noiseUsed = {}
  /\ callerFreed = 0
  /\ foldFreed = {}
  /\ exitCode = 0
  /\ heapCorrupt = FALSE
  /\ log = Made(args).log
  /\ reads = {}
  /\ writes = {}
  /\ op = [name |-> "make_fold"]

\* the caller asks the finest Fold for the next strip
NextStrip ==
  /\ Running
  /\ foldFreed = {}
  /\ Len(returned[top]) < MaxCalls
  /\ \E noise \in NoiseSeqs :
       /\ Becomes(next_strip(Machine(noise), top))
       /\ noiseUsed' = noiseUsed \cup {noise}
  /\ op' = [name |-> "next_strip"]
  /\ UNCHANGED <<args, top, callerFreed>>

\* the caller gets rid of the oldest strip it still holds
FreeStrip ==
  /\ Running
  /\ callerFreed < Len(returned[top])
  /\ Becomes(free_strip(Machine(<<0>>), returned[top][callerFreed + 1], "caller"))
  /\ callerFreed' = callerFreed + 1
  /\ op' = [name |-> "free_strip"]
  /\ UNCHANGED <<args, top, noiseUsed>>

\* the caller gets rid of the data structs, once
FreeFold ==
  /\ Running
  /\ foldFreed = {}
  /\ Becomes(free_fold(Machine(<<0>>), top))
  /\ op' = [name |-> "free_fold"]
  /\ UNCHANGED <<args, top, noiseUsed, callerFreed>>

Next == NextStrip \/ FreeStrip \/ FreeFold

Spec == Init /\ [][Next]_vars

\* ------------------------------------------------- the kernels on their own
\* One call of side_update, mid_update, recalc or double_strip on strips of
\* any levels: three strips are allocated and filled, then one call is made.
Pattern(k, i) == IF k = 0 THEN H(1) ELSE H(i * i - 2)

RECURSIVE fill_strip_loop(_, _, _, _)
fill_strip_loop(m, s, k, i) ==
  IF i < Shl(m.heap[s].level) + 1
  THEN fill_strip_loop(Store(m, s, i, Pattern(k, i)), s, k, i + 1)
  ELSE m

fill_strip(m, level, k) ==
  LET m1 == make_strip(m, level)
  IN fill_strip_loop(m1, m1.ret, k, 0)

KArgs == [levels : [1..3 -> LevelValues], patterns : [1..3 -> PatternValues]]

KMade(a) ==
  fill_strip(fill_strip(fill_strip(EmptyMachine, a.levels[1], a.patterns[1]),
                        a.levels[2], a.patterns[2]),
             a.levels[3], a.patterns[3])

KInit ==
  /\ args \in KArgs
  /\ top = NULL
  /\ fold = <<>>
  /\ heap = KMade(args).heap
  /\ returned = <<>>
  /\ nextCalls = <<>>
  /\ lateWrites = {}
  /\ noiseUsed = {}
  /\ callerFreed = 0
  /\ foldFreed = {}
  /\ exitCode = 0
  /\ heapCorrupt = FALSE
  /\ log = <<>>
  /\ reads = {}
  /\ writes = {}
  /\ op = [name |-> "fill_strip"]

KSideUpdate ==
  /\ op.name = "fill_strip"
  /\ \E strip \in DOMAIN heap : \E scale \in ScaleValues : \E noise \in NoiseSeqs :
       /\ heap[strip].level >= 1
       /\ Becomes(side_update(Machine(noise), strip, H(scale)))
       /\ noiseUsed' = {noise}
       /\ op' = [name |-> "side_update", strip |-> strip]
  /\ UNCHANGED <<args, top, callerFreed>>

KMidUpdate ==
  /\ op.name = "fill_strip"
  /\ \E left \in DOMAIN heap : \E new \in DOMAIN heap : \E right \in DOMAIN heap :
     \E scale \in ScaleValues : \E midscale \in ScaleValues : \E noise \in NoiseSeqs :
       /\ left # new /\ new # right /\ left # right
       /\ Becomes(mid_update(Machine(noise), left, new, right, H(scale), H(midscale)))
       /\ noiseUsed' = {noise}
       /\ op' = [name |-> "mid_update", left |-> left, new |-> new, right |-> right]
  /\ UNCHANGED <<args, top, callerFreed>>

\* with three strips of level 0 the count 1 << (level - 1) is not defined
KRecalc ==
  /\ op.name = "fill_strip"
  /\ \E left \in DOMAIN heap : \E regen \in DOMAIN heap : \E right \in DOMAIN heap :
     \E scale \in ScaleValues : \E noise \in NoiseSeqs :
       /\ left # regen /\ regen # right /\ left # right
       /\ ~(heap[left].level = 0 /\ heap[regen].level = 0 /\ heap[right].level = 0)
       /\ Becomes(recalc(Machine(noise), left, regen, right, H(scale)))
       /\ noiseUsed' = {noise}
       /\ op' = [name |-> "recalc", left |-> left, regen |-> regen, right |-> right]
  /\ UNCHANGED <<args, top, callerFreed>>

KDoubleStrip ==
  /\ op.name = "fill_strip"
  /\ \E s \in DOMAIN heap :
       LET m == double_strip(Machine(<<0>>), s)
       IN /\ Becomes(m)
          /\ op' = [name |-> "double_strip", s |-> s, ret |-> m.ret]
  /\ UNCHANGED <<args, top, callerFreed, noiseUsed>>

KNext == KSideUpdate \/ KMidUpdate \/ KRecalc \/ KDoubleStrip

SpecKernel == KInit /\ [][KNext]_vars

\* ================================================================ claims
Folds == DOMAIN fold

Strips == DOMAIN heap

Last(s) == s[Len(s)]

\* the strips the slots of a Fold point to
Slots(fd) == {fd.old, fd.new, fd.working, fd.regen} \ {NULL}

\* the strips the caller received
Handed == Range(returned[top])

RECURSIVE Sum(_, _, _)
Sum(s, a, b) == IF a > b THEN 0 ELSE s[a] + Sum(s, a + 1, b)

AllEntries(p, v) == \A j \in DOMAIN heap[p].d : heap[p].d[j] = v

\* C1: after next_strip returns a strip from a Fold, no slot of that Fold
\* still points to the returned strip (a Fold changes only inside its own
\* next_strip, so the state after its latest call is the state between calls).
C1_ReturnedStripLeavesFold ==
  \A f \in Folds :
    returned[f] # <<>> => Last(returned[f]) \notin Slots(fold[f])

\* C2: free_fold on the finest Fold, after any number of next_strip calls,
\* releases no strip twice, none that was released before and none that
\* next_strip had returned to the caller.
C2_FreeFoldReleasesOnce ==
  foldFreed # {} =>
    \A p \in Strips :
      /\ Len(heap[p].rel) <= 1
      /\ p \in Handed => "free_fold" \notin Range(heap[p].rel)

\* C3: in any window of 2k consecutive calls of next_strip on a Fold of
\* level > 0, next_strip is invoked on fold->next exactly k times.
C3_Amortization ==
  \A f \in Folds :
    fold[f].level > 0 =>
      \A a \in 0..Len(nextCalls[f]) : \A k \in 0..Len(nextCalls[f]) :
        a + 2 * k <= Len(nextCalls[f]) => Sum(nextCalls[f], a + 1, a + 2 * k) = k

\* a Fold below the finest one has been called four times: windows of two
\* and four calls starting at an even and at an odd call exist
C3_Witness ==
  \E f \in Folds : fold[f].level > 0 /\ f # top /\ Len(nextCalls[f]) >= 4

\* C4: with gaussian() fixed at 0 and smooth off, every entry of every strip
\* the finest Fold returns equals mean, whatever start and mean are.
C4_ZeroNoiseGivesMean ==
  (noiseUsed \subseteq {<<0>>} /\ ~args.smooth) =>
    \A p \in Handed : AllEntries(p, H(args.mean))

\* C5: every strip returned by next_strip on a Fold of level L has level L
\* and exactly 2^L + 1 entries, d[0] .. d[2^L].
C5_ReturnedStripSize ==
  \A f \in Folds : \A p \in Range(returned[f]) :
    /\ heap[p].level = fold[f].level
    /\ DOMAIN heap[p].d = 0..Shl(fold[f].level)
    /\ Cardinality(DOMAIN heap[p].d) = Shl(fold[f].level) + 1

\* strips have come back from the level-0 base case, from START and from
\* STORE of a Fold of level 2
C5_Witness ==
  /\ args.levels = 2
  /\ Len(returned[top]) >= 2
  /\ \E f \in Folds : fold[f].level = 0 /\ returned[f] # <<>>

\* C6: between next_strip calls no strip is pointed to by slots of two
\* different Folds of the chain.
C6_NoSharedStrip ==
  \A f \in Folds : \A g \in Folds :
    f # g => Slots(fold[f]) \cap Slots(fold[g]) = {}

\* C7: the strips one Fold returned are pairwise distinct allocations.
C7_ReturnedDistinct ==
  \A f \in Folds : \A i \in DOMAIN returned[f] : \A j \in DOMAIN returned[f] :
    i # j => returned[f][i] # returned[f][j]

\* two Folds have each returned from START, STORE and START again
C7_Witness ==
  \E f \in Folds : f # top /\ fold[f].level > 0 /\ Len(returned[f]) >= 3

\* C8: no entry of a strip is written once next_strip has returned the strip.
C8_NoWriteAfterReturn == lateWrites = {}

\* with smoothing on and noise drawn, the kernels have run several updates
\* at two levels after strips had been returned
C8_Witness ==
  /\ args.levels = 2
  /\ args.smooth
  /\ noiseUsed = {<<1, -1>>}
  /\ Len(returned[top]) >= 5

Live == {p \in Strips : heap[p].rel = <<>> /\ p \notin Handed}

\* the strips a Fold holds and has not returned
Accounts(f) == Slots(fold[f]) \ Range(returned[f])

\* C10: between calls a Fold of level > 0 accounts for at most 2 strips in
\* state START and 3 in state STORE, the level-0 Fold for none; every live
\* strip is accounted for, so at most 3 * levels are live.
C10_BoundedLive ==
  foldFreed = {} =>
    /\ \A f \in Folds :
         Cardinality(Accounts(f)) <=
           (IF fold[f].level = 0 THEN 0 ELSE IF fold[f].state = START THEN 2 ELSE 3)
    /\ Live = UNION {Accounts(f) : f \in Folds}
    /\ Cardinality(Live) <= 3 * args.levels

\* both Folds of level > 0 are in STORE and the bound 3 * levels is attained,
\* after strips have been released along the way
C10_Witness ==
  /\ args.levels = 2
  /\ foldFreed = {}
  /\ Len(returned[top]) >= 5
  /\ Cardinality(Live) = 3 * args.levels

\* C11: next_strip on a level-0 Fold returns a fresh strip of 2 entries,
\* calls next_strip on no other Fold and leaves the Fold's state and its
\* four slots as make_fold set them, for any number of calls.
C11_LevelZeroBase ==
  \A f \in Folds :
    fold[f].level = 0 =>
      /\ fold[f] = Made(args).fold[f]
      /\ \A i \in DOMAIN nextCalls[f] : nextCalls[f][i] = 0
      /\ \A i \in DOMAIN returned[f] :
           LET p == returned[f][i]
           IN /\ heap[p].level = 0
              /\ DOMAIN heap[p].d = {0, 1}
              /\ p > Len(Made(args).heap)
              /\ \A j \in 1..(i - 1) : returned[f][j] < p

\* a chain that is a level-0 Fold alone has been called three times
C11_Witness ==
  /\ args.levels = 0
  /\ Len(returned[top]) >= 3
  /\ noiseUsed = NoiseSeqs

MidMismatch(left, new, right) ==
  (heap[left].level # heap[new].level - 1) \/ (heap[new].level # heap[right].level)

RecalcMismatch(left, regen, right) ==
  (heap[left].level # heap[regen].level) \/ (heap[regen].level # heap[right].level)

\* C12: mid_update called with left.level # result.level - 1 or with
\* result.level # right.level, and recalc called with strips that do not
\* share one level, exit with status 2 before writing any entry.
C12_MismatchIsFatal ==
  [][((op'.name = "mid_update" /\ MidMismatch(op'.left, op'.new, op'.right))
        \/ (op'.name = "recalc" /\ RecalcMismatch(op'.left, op'.regen, op'.right)))
       => (exitCode' = 2 /\ heap' = heap /\ writes' = {})]_vars

\* mid_update was called with left one level below result, but right at
\* another level than result
C12_Witness ==
  /\ op.name = "mid_update"
  /\ heap[op.left].level = heap[op.new].level - 1
  /\ heap[op.new].level # heap[op.right].level
  /\ exitCode = 2

\* C13: double_strip(s) for s of level L returns a new strip r of level L+1
\* with entries 0 .. 2^(L+1), r[2i] = s[i], r[2i+1] = 0, and leaves s as it was.
C13_DoublingLaw ==
  [][op'.name = "double_strip" =>
       LET s == op'.s
           r == op'.ret
           L == heap[s].level
       IN /\ r \notin DOMAIN heap
          /\ heap'[r].level = L + 1
          /\ DOMAIN heap'[r].d = 0..Shl(L + 1)
          /\ \A i \in 0..Shl(L) : heap'[r].d[2 * i] = heap[s].d[i]
          /\ \A i \in 0..(Shl(L) - 1) : heap'[r].d[2 * i + 1] = H(0)
          /\ \A q \in DOMAIN heap : heap'[q] = heap[q]]_vars

\* a strip of level 2 whose entries differ from one another was doubled
C13_Witness ==
  /\ op.name = "double_strip"
  /\ heap[op.s].level = 2
  /\ args.patterns[op.s] = 1

\* C14: between calls a Fold of level > 0 in state START has new and working
\* NULL and old and regen set, in state STORE it has all four slots set, and
\* its state is START after an even and STORE after an odd number of calls.
C14_SlotsByState ==
  \A f \in Folds :
    fold[f].level > 0 =>
      /\ fold[f].state = START =>
           /\ fold[f].new = NULL /\ fold[f].working = NULL
           /\ fold[f].old # NULL /\ fold[f].regen # NULL
      /\ fold[f].state = STORE =>
           /\ fold[f].new # NULL /\ fold[f].working # NULL
           /\ fold[f].old # NULL /\ fold[f].regen # NULL
      /\ fold[f].state = (IF Len(returned[f]) % 2 = 0 THEN START ELSE STORE)

\* the finest Fold is back in START after six calls while the Fold below
\* it is in STORE
C14_Witness ==
  /\ args.levels = 2
  /\ Len(returned[top]) = 6
  /\ fold[top].state = START
  /\ fold[fold[top].next].state = STORE

\* C15: no strip next_strip returned holds an entry nothing wrote or a
\* placeholder double_strip put at an odd index.
C15_ReturnedFullyAssigned ==
  \A f \in Folds : \A p \in Range(returned[f]) :
    /\ heap[p].ph = {}
    /\ \A j \in DOMAIN heap[p].d : heap[p].d[j] # Uninit

\* Folds of level 1 and 2 have each returned a regen made by double_strip
C15_Witness ==
  /\ args.levels = 2
  /\ \A f \in Folds : fold[f].level > 0 => Len(returned[f]) >= 4

\* releases of strip p made by next_strip
EngineReleases(p) == SelectSeq(heap[p].rel, LAMBDA w : w = "next_strip")

\* C16: call 2j+1 (j >= 1) on a Fold of level > 0 returns the working strip
\* call 2j-1 allocated, with the contents it had at the end of mid_update;
\* the strip call 2j-1 obtained from the coarser Fold is released by
\* next_strip in call 2j, not before, and by nothing else at any time.
C16_WorkingBecomesOld ==
  \A f \in Folds :
    fold[f].level > 0 =>
      \A j \in 1..Len(returned[f]) :
        /\ 2 * j + 1 <= Len(returned[f]) =>
             /\ log[f][2 * j - 1].working # NULL
             /\ returned[f][2 * j + 1] = log[f][2 * j - 1].working
             /\ Snapshot(heap[log[f][2 * j - 1].working].d) = log[f][2 * j - 1].snap
        /\ 2 * j - 1 <= Len(returned[f]) =>
             LET new == log[f][2 * j - 1].new
             IN /\ new # NULL
                /\ log[f][2 * j - 1].released = NULL
                /\ 2 * j - 1 = Len(returned[f]) => EngineReleases(new) = <<>>
                /\ 2 * j <= Len(returned[f]) =>
                     /\ log[f][2 * j].released = new
                     /\ heap[new].rel = <<"next_strip">>

\* C17: with smooth off, the strip r returned by call 2j+2 (j >= 1) on a Fold
\* of level L > 0 and the strip s returned by call j on fold->next satisfy
\* r[2i] = s[i] for i in 0 .. 2^(L-1).
C17_EvenEntriesFromCoarser ==
  ~args.smooth =>
    \A f \in Folds :
      fold[f].level > 0 =>
        \A j \in 1..Len(returned[f]) :
          2 * j + 2 <= Len(returned[f]) =>
            LET r == returned[f][2 * j + 2]
                s == returned[fold[f].next][j]
            IN \A i \in 0..Shl(fold[f].level - 1) : heap[r].d[2 * i] = heap[s].d[i]

\* smooth off, noise drawn, and both Folds of level > 0 have made a fourth call
C17_Witness ==
  /\ args.levels = 2
  /\ ~args.smooth
  /\ noiseUsed = {<<1, -1>>}
  /\ \A f \in Folds : fold[f].level > 0 => Len(returned[f]) >= 4

Odd(L) == {i \in 0..Shl(L) : i % 2 = 1}

Even(L) == {i \in 0..Shl(L) : i % 2 = 0}

\* strip p keeps its entries at the indices idx, every other strip all of them
Kept(p, idx) ==
  /\ \A i \in idx : heap'[p].d[i] = heap[p].d[i]
  /\ \A q \in DOMAIN heap : q # p => heap'[q] = heap[q]

\* C18: side_update writes exactly the odd entries of its strip and keeps the
\* even ones; recalc writes exactly the even entries of regen and keeps its
\* odd ones and left and right; mid_update writes every entry of result and
\* keeps left and right.
C18_KernelFrames ==
  [][exitCode' = 0 =>
       /\ op'.name = "side_update" =>
            LET L == heap[op'.strip].level
            IN /\ writes' = {<<op'.strip, i>> : i \in Odd(L)}
               /\ Kept(op'.strip, Even(L))
       /\ op'.name = "recalc" =>
            LET L == heap[op'.regen].level
            IN /\ writes' = {<<op'.regen, i>> : i \in Even(L)}
               /\ Kept(op'.regen, Odd(L))
       /\ op'.name = "mid_update" =>
            LET L == heap[op'.new].level
            IN /\ writes' = {<<op'.new, i>> : i \in 0..Shl(L)}
               /\ Kept(op'.new, {})]_vars

\* recalc ran on three strips of level 2 with noise drawn
C18_Witness ==
  /\ op.name = "recalc"
  /\ exitCode = 0
  /\ heap[op.regen].level = 2
  /\ noiseUsed = {<<1, -1>>}

\* C19: no sequence of next_strip calls on a chain make_fold built exits:
\* every mid_update had left one level below result and right, every recalc
\* three strips of one level, and every Fold of level > 0 is in START or STORE.
C19_NoFatalExit ==
  /\ exitCode = 0
  /\ \A f \in Folds :
       fold[f].level > 0 =>
         /\ fold[f].state \in {START, STORE}
         /\ heap[fold[f].regen].level = fold[f].level
         /\ heap[fold[f].old].level = fold[f].level
         /\ \A i \in DOMAIN log[f] :
              log[f][i].working # NULL =>
                /\ heap[log[f][i].new].level = fold[f].level - 1
                /\ heap[log[f][i].working].level = fold[f].level

\* with smoothing on, the Folds of level 2 and 1 have run mid_update and
\* recalc four times and twice
C19_Witness ==
  /\ args.levels = 2
  /\ args.smooth
  /\ exitCode = 0
  /\ Len(returned[top]) >= 7
  /\ Len(returned[fold[top].next]) >= 4

\* C20: every entry the kernels read or write during a call of next_strip
\* lies within 0 .. 2^level of its strip, also for a Fold of level 1.
C20_AccessInRange ==
  \A a \in reads \cup writes :
    /\ a[2] \in 0..Shl(heap[a[1]].level)
    /\ a[2] \in DOMAIN heap[a[1]].d

\* a chain of level 1 with smoothing on: left has 2 entries and the interior
\* loop of recalc runs zero times
C20_Witness ==
  /\ args.levels = 1
  /\ args.smooth
  /\ op.name = "next_strip"
  /\ fold[top].state = STORE
  /\ Len(returned[top]) >= 3
  /\ reads # {}

====
